---- MODULE Spec2Model ----
(***************************************************************************)
(* Model of ZenodoDataDownload.py: the resumable transfer (download_file)  *)
(* and the multi-pass loop of main() around it.                            *)
(*                                                                         *)
(* A file name is a sequence of characters; the content of a file is a     *)
(* sequence of bytes.  Byte i of every remote resource is the number i, so *)
(* a local file is a correct download exactly when it equals Res(L) for    *)
(* the length L of the resource.                                           *)
(***************************************************************************)
EXTENDS Integers, Sequences, FiniteSets, TLC

\* ------------------------------------------------------------------ bounds
\* Largest expected size in a manifest; also the largest local file.
MaxSize == 2
\* Length of a resource whose size the manifest does not give, as a
\* well-behaved server serves it.
UnknownLen == 1
\* global_pass is only printed by the program; the model counts it up to
\* MaxPass and keeps it there (the loop itself is never cut).
MaxPass == 2

MaxFileLen == MaxSize

\* ------------------------------------------------------- program constants
max_retries == 5
\* file_info.get('size') of an entry without a size (None).
NoSize == -1

\* ------------------------------------------------------------------ inputs
NoName == <<>>
n1 == <<"a", "B">>
n2 == <<"c">>
FileNames == {n1, n2}

Sizes == {NoSize} \cup (0..MaxSize)

\* file_info as main() reads it: filename (key/filename), whether a download
\* url is present (links.self/links.content), size.
Entries ==
  {[name |-> NoName, uri |-> TRUE, size |-> NoSize],
   [name |-> n1, uri |-> FALSE, size |-> NoSize]}
  \cup {[name |-> n1, uri |-> TRUE, size |-> s] : s \in Sizes}
  \cup {[name |-> n2, uri |-> TRUE, size |-> s] : s \in {NoSize, MaxSize}}

Manifests == {<<a, b>> : a \in Entries, b \in Entries}

\* No filter, and one that matches n1 only once both sides are lowered.
Filters == {<<>>, <<"A", "b">>}

\* The bytes 1..l of a remote resource.
Res(l) == [i \in 1..l |-> i]

InitContents == {Res(l) : l \in 0..MaxFileLen} \cup {<<2>>}

\* ------------------------------------------------------------ pure helpers
\* str.lower() on the characters of the model.
Lower(c) ==
  CASE c = "A" -> "a"
    [] c = "B" -> "b"
    [] c = "C" -> "c"
    [] OTHER -> c

LowerStr(s) == [i \in 1..Len(s) |-> Lower(s[i])]

\* Python's `sub in s` on strings.
Contains(sub, s) ==
  \E i \in 0..(Len(s) - Len(sub)) : SubSeq(s, i + 1, i + Len(sub)) = sub

\* Truthy that never takes the size as known (the size is not passed on).
Truthy_Never(size) == FALSE

\* Truthy written as `is not None`: the size 0 counts as known.
Truthy_NotNone(size) == size # NoSize

\* Python truthiness of size / expected_size: None and 0 are false.
Truthy(size) == size # NoSize /\ size # 0

\* Matches with the test inverted (the `not` of `not in` dropped).
Matches_Inverted(flt, name) ==
  ~(flt # <<>> /\ Contains(LowerStr(flt), LowerStr(name)))

\* not (filter_keyword and filter_keyword.lower() not in filename.lower())
Matches(flt, name) ==
  ~(flt # <<>> /\ ~Contains(LowerStr(flt), LowerStr(name)))

\* WellFormed that tests the name only.
WellFormed_NameOnly(e) == e.name # NoName

\* not (not filename or not download_url)
WellFormed(e) == ~(e.name = NoName \/ ~e.uri)

NoResp == [status |-> 0, body |-> <<>>]

VARIABLES
  files,                   \* metadata['files'], the manifest
  filter_keyword,
  fexists,                 \* names of the files present in output_dir
  fdata,                   \* their contents (<<>> when absent)
  srv,                     \* "any": arbitrary server; "good": well-behaved
  pc,
  global_pass,
  all_downloaded,
  files_to_download_count,
  idx,                     \* position of the for loop in files
  initial_pos, mode, headers, retry_count,   \* locals of download_file
  r,                       \* the response being processed
  result,                  \* what the run reported when it ended
  attempts,                \* requests sent by this call of download_file
  requested,               \* some request was sent in this run
  failed                   \* positions whose download_file returned False
                           \* in this pass

vars == <<files, filter_keyword, fexists, fdata, srv, pc, global_pass,
          all_downloaded, files_to_download_count, idx, initial_pos, mode,
          headers, retry_count, r, result, attempts, requested,
          failed>>

input == <<files, filter_keyword>>
fsys == <<fexists, fdata>>
locals == <<initial_pos, mode, headers, retry_count, r, attempts>>
mainv == <<global_pass, all_downloaded, files_to_download_count, idx, result,
           failed>>

cur == files[idx]
Size(n) == Len(fdata[n])

\* Some well-formed entry that passes the filter is to be stored under n.
Wanted(n) ==
  \E i \in 1..Len(files) :
    WellFormed(files[i]) /\ files[i].name = n /\ Matches(filter_keyword, n)

\* Every manifest, filter and local directory of the bounded sets; a file no
\* entry of the run is stored under is either absent or holds one byte.
Init ==
  /\ files \in Manifests
  /\ filter_keyword \in Filters
  /\ fexists \in SUBSET FileNames
  /\ fdata \in [FileNames -> InitContents]
  /\ \A n \in FileNames : n \notin fexists => fdata[n] = <<>>
  /\ \A n \in FileNames : n \in fexists /\ ~Wanted(n) => fdata[n] = Res(1)
  /\ srv = "any"
  /\ pc = "pass"
  /\ global_pass = 1
  /\ all_downloaded = TRUE
  /\ files_to_download_count = 0
  /\ idx = 1
  /\ initial_pos = 0 /\ mode = "wb" /\ headers = {} /\ retry_count = 0
  /\ r = NoResp
  /\ result = "running"
  /\ attempts = 0
  /\ requested = FALSE
  /\ failed = {}

\* ------------------------------------------------------------------ main()
\* while True: all_downloaded = True; files_to_download_count = 0
StartPass ==
  /\ pc = "pass"
  /\ all_downloaded' = TRUE
  /\ files_to_download_count' = 0
  /\ idx' = 1
  /\ failed' = {}
  /\ pc' = "visit"
  /\ UNCHANGED <<input, fsys, srv, locals, global_pass, result, requested>>

\* if not filename or not download_url: continue
SkipUnparseable ==
  /\ pc = "visit" /\ idx <= Len(files)
  /\ ~WellFormed(cur)
  /\ idx' = idx + 1
  /\ UNCHANGED <<input, fsys, srv, locals, pc, global_pass, all_downloaded,
                 files_to_download_count, result, requested,
                 failed>>

\* if filter_keyword and filter_keyword.lower() not in filename.lower(): continue
SkipFilter ==
  /\ pc = "visit" /\ idx <= Len(files)
  /\ WellFormed(cur)
  /\ ~Matches(filter_keyword, cur.name)
  /\ idx' = idx + 1
  /\ UNCHANGED <<input, fsys, srv, locals, pc, global_pass, all_downloaded,
                 files_to_download_count, result, requested,
                 failed>>

\* the quick check of main(): the file exists and size is truthy and equal
QuickComplete(e) ==
  /\ e.name \in fexists
  /\ Truthy(e.size)
  /\ Size(e.name) = e.size

SkipComplete ==
  /\ pc = "visit" /\ idx <= Len(files)
  /\ WellFormed(cur)
  /\ Matches(filter_keyword, cur.name)
  /\ QuickComplete(cur)
  /\ files_to_download_count' = files_to_download_count + 1
  /\ idx' = idx + 1
  /\ UNCHANGED <<input, fsys, srv, locals, pc, global_pass, all_downloaded,
                 result, requested,
                 failed>>

\* success = download_file(download_url, filename, output_dir, expected_size=size)
CallDownload ==
  /\ pc = "visit" /\ idx <= Len(files)
  /\ WellFormed(cur)
  /\ Matches(filter_keyword, cur.name)
  /\ ~QuickComplete(cur)
  /\ files_to_download_count' = files_to_download_count + 1
  /\ pc' = "df_check"
  /\ UNCHANGED <<input, fsys, srv, locals, global_pass, all_downloaded, idx,
                 result, requested,
                 failed>>

EndFor ==
  /\ pc = "visit" /\ idx > Len(files)
  /\ pc' = "pass_end"
  /\ UNCHANGED <<input, fsys, srv, locals, mainv, requested>>

\* if files_to_download_count == 0: print("No matching files found."); break
NoMatching ==
  /\ pc = "pass_end"
  /\ files_to_download_count = 0
  /\ result' = "no_matching"
  /\ pc' = "done"
  /\ UNCHANGED <<input, fsys, srv, locals, global_pass, all_downloaded,
                 files_to_download_count, idx, requested,
                 failed>>

\* if all_downloaded: print("All ... files downloaded successfully!"); break
AllDownloaded ==
  /\ pc = "pass_end"
  /\ files_to_download_count # 0
  /\ all_downloaded
  /\ result' = "all_succeeded"
  /\ pc' = "done"
  /\ UNCHANGED <<input, fsys, srv, locals, global_pass, all_downloaded,
                 files_to_download_count, idx, requested,
                 failed>>

\* else: time.sleep(10); global_pass += 1
NextPass ==
  /\ pc = "pass_end"
  /\ files_to_download_count # 0
  /\ ~all_downloaded
  /\ global_pass' = IF global_pass < MaxPass THEN global_pass + 1 ELSE global_pass
  /\ pc' = "pass"
  /\ UNCHANGED <<input, fsys, srv, locals, all_downloaded,
                 files_to_download_count, idx, result, requested,
                 failed>>

\* --------------------------------------------------------- download_file()
\* The locals of download_file when no call is active.
ResetLocals ==
  /\ initial_pos' = 0 /\ mode' = "wb" /\ headers' = {} /\ retry_count' = 0
  /\ r' = NoResp /\ attempts' = 0

\* download_file returned True: main() goes on with the next entry.
ReturnTrue ==
  /\ ResetLocals
  /\ idx' = idx + 1
  /\ pc' = "visit"
  /\ UNCHANGED <<input, srv, global_pass, all_downloaded,
                 files_to_download_count, result, requested,
                 failed>>

\* ReturnFalse where main() forgets the failure (all_downloaded stays).
ReturnFalse_Forget ==
  /\ ResetLocals
  /\ failed' = failed \cup {idx}
  /\ idx' = idx + 1
  /\ pc' = "visit"
  /\ UNCHANGED <<input, srv, global_pass, all_downloaded,
                 files_to_download_count, result, requested>>

\* ReturnFalse where main() leaves the for loop after a failure (break).
ReturnFalse_Break ==
  /\ ResetLocals
  /\ all_downloaded' = FALSE
  /\ failed' = failed \cup {idx}
  /\ pc' = "pass_end"
  /\ UNCHANGED <<input, srv, global_pass, files_to_download_count, idx,
                 result, requested>>

\* download_file returned False: if not success: all_downloaded = False
ReturnFalse ==
  /\ ResetLocals
  /\ all_downloaded' = FALSE
  /\ failed' = failed \cup {idx}
  /\ idx' = idx + 1
  /\ pc' = "visit"
  /\ UNCHANGED <<input, srv, global_pass, files_to_download_count, result,
                 requested>>

\* The first lines of download_file: the local file decides how to start.
\*   if os.path.exists(filepath):
\*     if expected_size and initial_pos == expected_size: return True
\*     elif expected_size and initial_pos > expected_size:
\*         initial_pos = 0; os.remove(filepath)
\*   mode = 'ab' if initial_pos > 0 else 'wb'
\*   if initial_pos > 0: headers['Range'] = f'bytes={initial_pos}-'
CheckLocal ==
  /\ pc = "df_check"
  /\ IF cur.name \in fexists /\ Truthy(cur.size) /\ Size(cur.name) = cur.size
       THEN ReturnTrue /\ UNCHANGED fsys
     ELSE IF cur.name \in fexists /\ Truthy(cur.size) /\ Size(cur.name) > cur.size
       THEN /\ fexists' = fexists \ {cur.name}
            /\ fdata' = [fdata EXCEPT ![cur.name] = <<>>]
            /\ initial_pos' = 0 /\ mode' = "wb" /\ headers' = {}
            /\ retry_count' = 0
            /\ pc' = "df_loop"
            /\ UNCHANGED <<input, srv, mainv, r, attempts, requested>>
     ELSE LET pos == IF cur.name \in fexists THEN Size(cur.name) ELSE 0 IN
            /\ initial_pos' = pos
            /\ mode' = (IF pos > 0 THEN "ab" ELSE "wb")
            /\ headers' = (IF pos > 0 THEN {pos} ELSE {})
            /\ retry_count' = 0
            /\ pc' = "df_loop"
            /\ UNCHANGED <<input, fsys, srv, mainv, r, attempts, requested>>

\* SendRequest with the loop test off by one (retry_count <= max_retries).
SendRequest_OneMore ==
  /\ pc = "df_loop"
  /\ retry_count <= max_retries
  /\ attempts' = attempts + 1
  /\ requested' = TRUE
  /\ pc' = "df_wait"
  /\ UNCHANGED <<input, fsys, srv, mainv, initial_pos, mode, headers,
                 retry_count, r>>

\* while retry_count < max_retries: requests.get(url, headers=headers, ...)
SendRequest ==
  /\ pc = "df_loop"
  /\ retry_count < max_retries
  /\ attempts' = attempts + 1
  /\ requested' = TRUE
  /\ pc' = "df_wait"
  /\ UNCHANGED <<input, fsys, srv, mainv, initial_pos, mode, headers,
                 retry_count, r>>

\* the loop ends: print("... failed to download after max retries."); return False
GiveUp ==
  /\ pc = "df_loop"
  /\ ~(retry_count < max_retries)
  /\ ReturnFalse
  /\ UNCHANGED fsys

\* Handler that starts over instead of reading the file: no Range, 'wb'.
Handler_FromZero(ex, len) ==
  /\ retry_count' = retry_count + 1
  /\ initial_pos' = 0 /\ headers' = {} /\ mode' = "wb"
  /\ r' = NoResp
  /\ pc' = "df_loop"

\* except Exception: retry_count += 1; time.sleep(5); the Range header, mode
\* and initial_pos are taken from the file as it is now on disk.
Handler(ex, len) ==
  /\ retry_count' = retry_count + 1
  /\ IF ex
       THEN initial_pos' = len /\ headers' = {len} /\ mode' = "ab"
       ELSE initial_pos' = 0 /\ headers' = {} /\ mode' = "wb"
  /\ r' = NoResp
  /\ pc' = "df_loop"

\* The length of the resource of entry e when the server is well-behaved.
GoodLen(e) == IF e.size = NoSize THEN UnknownLen ELSE e.size

\* The offset of the Range header of the request, 0 without one.
Offset == IF headers = {} THEN 0 ELSE CHOOSE k \in headers : TRUE

\* The request fails before any byte is read: connection error, timeout, or
\* r.raise_for_status() on a 4xx/5xx status.
RespondError ==
  /\ pc = "df_wait"
  /\ srv = "good" => (headers # {} /\ Offset >= GoodLen(cur))
  /\ Handler(cur.name \in fexists, Size(cur.name))
  /\ UNCHANGED <<input, fsys, srv, mainv, attempts, requested>>

\* Statuses that pass raise_for_status().
OkStatuses == {200, 204, 206}

\* The status a well-behaved server answers the request with.
GoodStatus == IF headers = {} THEN 200 ELSE 206

\* RespondOk without the restart branch of a 200 answer: mode stays 'ab'.
RespondOk_KeepMode ==
  /\ pc = "df_wait"
  /\ \E st \in OkStatuses :
       /\ srv = "good" =>
            /\ st = GoodStatus
            /\ headers # {} => Offset < GoodLen(cur)
       /\ r' = [status |-> st, body |-> <<>>]
  /\ pc' = "df_open"
  /\ UNCHANGED <<input, fsys, srv, mainv, initial_pos, mode, headers,
                 retry_count, attempts, requested>>

\* RespondOk with the two status branches swapped: a 206 restarts.
RespondOk_Swapped ==
  /\ pc = "df_wait"
  /\ \E st \in OkStatuses :
       /\ srv = "good" =>
            /\ st = GoodStatus
            /\ headers # {} => Offset < GoodLen(cur)
       /\ r' = [status |-> st, body |-> <<>>]
       /\ IF initial_pos > 0 /\ st = 206
            THEN initial_pos' = 0 /\ mode' = "wb"
            ELSE UNCHANGED <<initial_pos, mode>>
  /\ pc' = "df_open"
  /\ UNCHANGED <<input, fsys, srv, mainv, headers, retry_count, attempts,
                 requested>>

\* raise_for_status() passes; the 200/206 branch when resuming.
RespondOk ==
  /\ pc = "df_wait"
  /\ \E st \in OkStatuses :
       /\ srv = "good" =>
            /\ st = GoodStatus
            /\ headers # {} => Offset < GoodLen(cur)
       /\ r' = [status |-> st, body |-> <<>>]
       /\ IF initial_pos > 0 /\ st = 200
            THEN initial_pos' = 0 /\ mode' = "wb"
            ELSE UNCHANGED <<initial_pos, mode>>
  /\ pc' = "df_open"
  /\ UNCHANGED <<input, fsys, srv, mainv, headers, retry_count, attempts,
                 requested>>

\* OpenFile that opens with 'wb' whatever the mode.
OpenFile_AlwaysTruncate ==
  /\ pc = "df_open"
  /\ fexists' = fexists \cup {cur.name}
  /\ fdata' = [fdata EXCEPT ![cur.name] = <<>>]
  /\ pc' = "df_write"
  /\ UNCHANGED <<input, srv, mainv, locals, requested>>

\* with open(filepath, mode) as f: 'wb' truncates, both modes create.
OpenFile ==
  /\ pc = "df_open"
  /\ fexists' = fexists \cup {cur.name}
  /\ fdata' = IF mode = "wb" THEN [fdata EXCEPT ![cur.name] = <<>>] ELSE fdata
  /\ pc' = "df_write"
  /\ UNCHANGED <<input, srv, mainv, locals, requested>>

\* The first byte of the resource the body starts after.
BodyFrom == IF r.status = 206 THEN Offset ELSE 0

\* The bodies the server may stream: a well-behaved one sends the resource
\* from the requested offset to its end, an arbitrary one any run of bytes
\* of some resource from there that the local file has room for.
Bodies ==
  IF r.status = 204 THEN {<<>>}
  ELSE IF srv = "good"
    THEN {SubSeq(Res(GoodLen(cur)), BodyFrom + 1, GoodLen(cur))}
    ELSE {SubSeq(Res(MaxFileLen), BodyFrom + 1, to) : to \in BodyFrom..MaxFileLen}

\* for chunk in r.iter_content(...): f.write(chunk), to the end of the stream.
WriteAll ==
  /\ pc = "df_write"
  /\ \E b \in Bodies :
       /\ Size(cur.name) + Len(b) <= MaxFileLen
       /\ fdata' = [fdata EXCEPT ![cur.name] = @ \o b]
       /\ r' = [r EXCEPT !.body = b]
  /\ pc' = "df_verify"
  /\ UNCHANGED <<input, fexists, srv, mainv, initial_pos, mode, headers,
                 retry_count, attempts, requested>>

\* The stream breaks (or a write fails) after some bytes were written.
WriteBroken ==
  /\ pc = "df_write"
  /\ srv = "any"
  /\ \E b \in Bodies :
       /\ Size(cur.name) + Len(b) <= MaxFileLen
       /\ fdata' = [fdata EXCEPT ![cur.name] = @ \o b]
       /\ Handler(TRUE, Size(cur.name) + Len(b))
  /\ UNCHANGED <<input, fexists, srv, mainv, attempts, requested>>

\* if expected_size and os.path.getsize(filepath) != expected_size: raise
SizeMismatch == Truthy(cur.size) /\ Size(cur.name) # cur.size

VerifyFail ==
  /\ pc = "df_verify"
  /\ SizeMismatch
  /\ Handler(cur.name \in fexists, Size(cur.name))
  /\ UNCHANGED <<input, fsys, srv, mainv, attempts, requested>>

\* print("Download complete"); return True
VerifyOk ==
  /\ pc = "df_verify"
  /\ ~SizeMismatch
  /\ ReturnTrue
  /\ UNCHANGED fsys

\* ------------------------------------------------------------- environment
\* From here on the server is well-behaved.  Every response of a well-behaved
\* server is one the arbitrary server can give too, so the change adds no
\* behaviour of the program; it is taken between two passes.
BecomeWellBehaved ==
  /\ srv = "any"
  /\ pc = "pass"
  /\ srv' = "good"
  /\ UNCHANGED <<input, fsys, pc, mainv, locals, requested>>

Step ==
  \/ StartPass \/ SkipUnparseable \/ SkipFilter \/ SkipComplete
  \/ CallDownload \/ EndFor \/ NoMatching \/ AllDownloaded \/ NextPass
  \/ CheckLocal \/ SendRequest \/ GiveUp
  \/ RespondError \/ RespondOk \/ OpenFile \/ WriteAll \/ WriteBroken
  \/ VerifyFail \/ VerifyOk

Next == Step \/ BecomeWellBehaved

Spec == Init /\ [][Next]_vars

\* The program is one thread and every wait in it is bounded (request
\* timeouts, time.sleep): a step it can take, it takes.
FairSpec == Spec /\ WF_vars(Step)

\* ================================================================ properties
DfPcs == {"df_check", "df_loop", "df_wait", "df_open", "df_write", "df_verify"}

\* name contains flt as a case-insensitive substring
InsensitiveSubstring(flt, name) ==
  \E i \in 0..(Len(name) - Len(flt)) :
    \A j \in 1..Len(flt) : Lower(name[i + j]) = Lower(flt[j])

\* Positions of the well-formed entries that pass the filter (the raw
\* filtered set, before any size check).
Filtered ==
  {i \in 1..Len(files) :
     /\ files[i].name # NoName /\ files[i].uri
     /\ filter_keyword # <<>> => InsensitiveSubstring(filter_keyword, files[i].name)}

\* The local file of e has exactly the expected size the manifest gives.
HasExpectedSize(e) ==
  e.size # NoSize /\ e.name \in fexists /\ Len(fdata[e.name]) = e.size

\* ----------------------------------------------------------------------- C1
\* C1 (as claimed): when the run ends reporting that all files succeeded,
\* every well-formed entry that passes the filter and has a known expected
\* size has a local file of exactly that size.
C1_AllSucceededMeansVerified ==
  (pc = "done" /\ result = "all_succeeded") =>
    \A i \in Filtered : files[i].size # NoSize => HasExpectedSize(files[i])

\* ----------------------------------------------------------------------- C2
\* C2 (as claimed): no request is in flight for an entry whose local file
\* already has the entry's known expected size, on the first attempt and on
\* every retry.  Stated for the sizes 1..MaxSize, where nobody doubts that
\* the size is known.
C2_NoRequestWhenComplete ==
  pc = "df_wait" =>
    ~(cur.size \in 1..MaxSize /\ HasExpectedSize(cur))

\* ----------------------------------------------------------------------- C3
\* The local file of the current entry holds K bytes, 0 < K < expected size,
\* and the request carried Range: bytes=K-.
Resuming ==
  /\ Truthy(cur.size)
  /\ cur.name \in fexists
  /\ headers = {Offset}
  /\ 0 < Offset /\ Offset < cur.size

\* Bytes K+1..expected size of the resource: what a server that honours
\* Range: bytes=K- sends with status 206.
Remaining == SubSeq(Res(cur.size), Offset + 1, cur.size)

\* C3: a request for an entry whose local file holds K bytes, 0 < K <
\* expected size, carries Range: bytes=K-; when the server answers 206 with
\* the remaining bytes, opening the file keeps the K bytes, the stream is
\* appended to them, the file ends as the K bytes followed by bytes K+1..end
\* of the resource (the whole resource when the K bytes were its first K
\* bytes), and download_file returns True.
C3_ResumeCorrect ==
  [][ /\ (pc' = "df_wait" /\ cur.name \in fexists /\ Truthy(cur.size)
            /\ 0 < Size(cur.name) /\ Size(cur.name) < cur.size)
          => headers' = {Size(cur.name)}
      /\ (pc = "df_open" /\ r.status = 206 /\ Resuming /\ Size(cur.name) = Offset)
          => (fdata' = fdata /\ fexists' = fexists)
      /\ (pc = "df_write" /\ pc' = "df_verify" /\ r.status = 206 /\ Resuming
            /\ Size(cur.name) = Offset /\ r'.body = Remaining)
          => /\ fdata'[cur.name] = fdata[cur.name] \o Remaining
             /\ Len(fdata'[cur.name]) = cur.size
             /\ fdata[cur.name] = Res(Offset) => fdata'[cur.name] = Res(cur.size)
      /\ (pc = "df_verify" /\ r.status = 206 /\ Resuming /\ r.body = Remaining)
          => /\ pc' = "visit" /\ idx' = idx + 1
             /\ failed' = failed /\ all_downloaded' = all_downloaded
             /\ fdata' = fdata /\ fexists' = fexists
    ]_vars

\* A resumed transfer of the second byte of a two-byte resource has ended.
C3_Witness ==
  /\ pc = "df_verify" /\ r.status = 206 /\ r.body = <<2>>
  /\ cur.size = 2 /\ headers = {1}
  /\ fdata[cur.name] = <<1, 2>>

\* ----------------------------------------------------------------------- C4
\* C4: when status 200 answers a request that carried a Range header, opening
\* the file leaves it empty before any byte of the response is written, and
\* when the stream has completed the file is exactly the response body; on
\* the first attempt and on every retry.
C4_IgnoredRangeRestart ==
  [][ /\ (pc = "df_open" /\ r.status = 200 /\ headers # {})
          => (cur.name \in fexists' /\ fdata'[cur.name] = <<>>)
      /\ (pc' = "df_verify" /\ r'.status = 200 /\ headers' # {})
          => fdata'[cur.name] = r'.body
    ]_vars

\* On a retry, a two-byte body answered with 200 has replaced one old byte.
C4_Witness ==
  /\ pc = "df_verify" /\ r.status = 200 /\ headers = {1}
  /\ retry_count > 0
  /\ r.body = <<1, 2>> /\ fdata[cur.name] = <<1, 2>>

\* ----------------------------------------------------------------------- C5
\* C5: one call of download_file (one entry in one pass) sends at most
\* max_retries requests; once max_retries attempts have failed the next step
\* sends nothing, records the entry as failed for the pass and moves main()
\* to the next entry; an entry is recorded as failed only then; and the call
\* of a position is over for the pass once it returns.
C5_RetryBound ==
  [][ /\ attempts' <= max_retries
      /\ (pc = "df_loop" /\ retry_count = max_retries)
          => /\ attempts = max_retries
             /\ pc' = "visit" /\ idx' = idx + 1
             /\ failed' = failed \cup {idx} /\ ~all_downloaded'
             /\ requested' = requested /\ fdata' = fdata /\ fexists' = fexists
      /\ (failed' # failed /\ failed' # {})
          => (pc = "df_loop" /\ retry_count = max_retries /\ failed' = failed \cup {idx})
      /\ (pc \in DfPcs /\ pc' \in DfPcs) => idx' = idx
      /\ (pc \in DfPcs /\ pc' \notin DfPcs) => idx' = idx + 1
    ]_vars

\* The fifth attempt of a call has failed.
C5_Witness ==
  pc = "df_loop" /\ retry_count = max_retries /\ attempts = max_retries

\* ----------------------------------------------------------------------- C6
\* C6: with a filter, download_file only ever runs (and so a request is only
\* ever sent) for an entry whose name contains the filter as a
\* case-insensitive substring, and no step creates, changes or deletes the
\* local file of a name that does not contain it.
C6_FilterCorrect ==
  [][ filter_keyword # <<>> =>
        /\ pc' \in DfPcs =>
             /\ files[idx'].name # NoName
             /\ InsensitiveSubstring(filter_keyword, files[idx'].name)
        /\ \A n \in FileNames :
             ~InsensitiveSubstring(filter_keyword, n) =>
               /\ (n \in fexists') = (n \in fexists)
               /\ fdata'[n] = fdata[n]
    ]_vars

\* A filtered run has ended after a transfer for the matching second entry;
\* the first entry is well-formed, does not match and has a local file.
C6_Witness ==
  /\ filter_keyword # <<>> /\ pc = "done" /\ requested
  /\ files[1].name = n2 /\ files[1].uri /\ n2 \in fexists
  /\ files[2].name = n1 /\ files[2].uri /\ fdata[n1] = <<1, 2>>

\* ----------------------------------------------------------------------- C7
\* C7: when a pass has ended, a new pass starts if and only if some entry
\* failed in it, whatever the number of the pass, and otherwise the run
\* stops; a pass starts, and the run stops, in no other way.  So the run
\* stops exactly at the first pass without a failed entry, and never while
\* entries keep failing.
C7_PassConvergence ==
  [][ /\ pc = "pass_end" =>
            /\ (pc' = "pass") = (failed # {})
            /\ (pc' = "done") = (failed = {})
      /\ (pc' = "pass" /\ pc # "pass") => (pc = "pass_end" /\ failed # {})
      /\ (pc' = "done" /\ pc # "done") => (pc = "pass_end" /\ failed = {})
    ]_vars

\* The run has stopped with success in a pass after the first one.
C7_Witness ==
  pc = "done" /\ global_pass > 1 /\ result = "all_succeeded" /\ failed = {}

\* ----------------------------------------------------------------------- C9
\* Position i is eligible: in the filtered set, and its local file does not
\* have a known expected size.
Eligible(i) == i \in Filtered /\ ~HasExpectedSize(files[i])

\* C9: the for loop visits the positions in manifest order, one by one, up to
\* the end of the manifest; an eligible entry it visits gets a call of
\* download_file, whatever failed before it in the pass; and the call of a
\* position ends with the loop at the next position, also when it returns
\* False.
C9_PartialFailure ==
  [][ /\ (pc = "visit" /\ idx <= Len(files) /\ Eligible(idx))
          => (pc' = "df_check" /\ idx' = idx)
      /\ pc \in DfPcs =>
            \/ pc' \in DfPcs /\ idx' = idx
            \/ pc' = "visit" /\ idx' = idx + 1
      /\ (pc = "visit" /\ pc' \notin DfPcs) =>
            \/ pc' = "visit" /\ idx' = idx + 1 /\ idx <= Len(files)
            \/ pc' = "pass_end" /\ idx' = idx /\ idx > Len(files)
      /\ (pc' = "visit" /\ pc \notin DfPcs \cup {"visit"}) => idx' = 1
    ]_vars

\* The first entry has failed for the pass and the transfer of the second,
\* under another name, has completed with the expected size.
C9_Witness ==
  /\ pc = "df_verify" /\ idx = 2 /\ failed = {1}
  /\ files[1].name # files[2].name
  /\ Truthy(cur.size) /\ ~SizeMismatch

\* ----------------------------------------------------------------------- C8
\* Every entry of the filtered set is already complete: its local file has
\* the known expected size.
AllFilteredComplete == \A i \in Filtered : HasExpectedSize(files[i])

\* C8 (as claimed): the run reports "no matching files" if and only if the
\* filtered set is empty, and only in the first pass; and while the filtered
\* set is not empty, all its entries are complete and no request has been
\* sent yet, no step sends one, and the run can only end in the first pass
\* reporting that all files succeeded.
C8_Reports ==
  [][ /\ pc' = "done" =>
            /\ (result' = "no_matching") = (Filtered = {})
            /\ result' = "no_matching" => global_pass' = 1
      /\ (Filtered # {} /\ AllFilteredComplete /\ ~requested) =>
            /\ ~requested'
            /\ pc' = "done" => (result' = "all_succeeded" /\ global_pass' = 1)
    ]_vars

\* ---------------------------------------------------------------------- C10
\* C10 (as claimed): once the server is well-behaved, a run with a filtered
\* set that is not empty eventually ends reporting that all files succeeded.
C10_Converges ==
  (srv = "good" /\ Filtered # {}) ~> (pc = "done" /\ result = "all_succeeded")

\* ---------------------------------------------------------------------- C11
\* C11 (as claimed): no request is in flight for an entry whose local file
\* is larger than the entry's known expected size, and every request for an
\* entry with such a file behind it is a fresh one; on the first attempt and
\* on every retry.  Stated for the sizes 1..MaxSize.
C11_NoRequestWhenOversized ==
  pc = "df_wait" =>
    ~(cur.size \in 1..MaxSize /\ cur.name \in fexists
        /\ Len(fdata[cur.name]) > cur.size)

\* ---------------------------------------------------------------------- C12
\* C12 (as claimed): a request in flight carries a Range header if and only
\* if the local file holds more than 0 bytes, and the offset of the header is
\* the size of the file on disk.
C12_RangeIffNonEmpty ==
  pc = "df_wait" =>
    /\ (headers # {}) = (cur.name \in fexists /\ Len(fdata[cur.name]) > 0)
    /\ headers # {} => headers = {Len(fdata[cur.name])}

\* ---------------------------------------------------------------------- C13
\* C13 (as claimed): when the stream has completed and the expected size is
\* known and differs from the size of the local file, the attempt fails and
\* counts as a retry; and download_file returns True only with an unknown
\* expected size or a local file of the expected size.
C13_SizeVerified ==
  [][ /\ (pc = "df_verify" /\ cur.size # NoSize
            /\ Len(fdata[cur.name]) # cur.size)
          => (pc' = "df_loop" /\ retry_count' = retry_count + 1)
      /\ (pc \in DfPcs /\ pc' = "visit" /\ failed' = failed)
          => \/ cur.size = NoSize
             \/ cur.name \in fexists' /\ Len(fdata'[cur.name]) = cur.size
    ]_vars

\* ---------------------------------------------------------------------- C14
\* C14 (as claimed): an attempt whose response has a status other than 200
\* and 206 writes no byte of the response and does not end in success
\* (download_file returning True).
C14_OtherStatusFails ==
  [][ (pc \in {"df_open", "df_write", "df_verify"} /\ r.status \notin {200, 206})
        => /\ fdata' = fdata
           /\ ~(pc' = "visit" /\ failed' = failed)
    ]_vars

\* ---------------------------------------------------------------------- C15
\* The steps of one attempt: from the request in flight to its end.
AttemptPcs == {"df_wait", "df_open", "df_write", "df_verify"}

\* C15 (as claimed): no step of an attempt makes the local file of the entry
\* smaller.
C15_NoShrinkInAttempt ==
  [][ (pc \in AttemptPcs)
        => Len(fdata'[cur.name]) >= Len(fdata[cur.name])
    ]_vars

\* C15 (amended): a step of an attempt makes the local file of the entry
\* smaller only when it opens the file after a 200 answered a request that
\* carried a Range header, and then the file is left with 0 bytes; every
\* other step of the attempt keeps or grows the size.
C15_ShrinkOnlyOnRestart ==
  [][ (pc \in AttemptPcs /\ Len(fdata'[cur.name]) < Len(fdata[cur.name]))
        => /\ pc = "df_open" /\ r.status = 200 /\ headers # {}
           /\ Len(fdata'[cur.name]) = 0
    ]_vars

\* A 200 answered Range: bytes=k- (k > 0) and the file was just opened: the k
\* bytes are gone.
C15_Witness ==
  /\ pc = "df_write" /\ r.status = 200
  /\ Offset > 0 /\ mode = "wb"
  /\ Len(fdata[cur.name]) = 0

\* ---------------------------------------------------------------------- C16
IsPrefix(s, t) == Len(s) <= Len(t) /\ SubSeq(t, 1, Len(s)) = s

\* C16: the step in which an attempt fails removes no file and no byte
\* (every file keeps what it had, the entry's file possibly with the bytes
\* the attempt wrote before failing), and sets the start of the next attempt
\* to the size found on disk: initial_pos is that size and, the file being
\* there, the Range header carries it and the mode is append.  The request of
\* the retry is then sent with these and leaves the file alone.
C16_NoTruncationAfterError ==
  [][ /\ (pc \in AttemptPcs /\ pc' = "df_loop")
          => /\ fexists' = fexists
             /\ \A n \in FileNames :
                  IF n = cur.name THEN IsPrefix(fdata[n], fdata'[n])
                                  ELSE fdata'[n] = fdata[n]
             /\ retry_count' = retry_count + 1
             /\ initial_pos' = (IF cur.name \in fexists'
                                  THEN Len(fdata'[cur.name]) ELSE 0)
             /\ cur.name \in fexists'
                  => headers' = {Len(fdata'[cur.name])} /\ mode' = "ab"
      /\ (pc = "df_loop" /\ retry_count > 0 /\ pc' = "df_wait")
          => /\ fsys' = fsys
             /\ initial_pos = (IF cur.name \in fexists
                                 THEN Len(fdata[cur.name]) ELSE 0)
             /\ cur.name \in fexists
                  => headers' = {Len(fdata[cur.name])} /\ mode' = "ab"
    ]_vars

\* A retry in flight that resumes from the byte a failed attempt left.
C16_Witness ==
  /\ pc = "df_wait" /\ retry_count > 0
  /\ cur.name \in fexists /\ Len(fdata[cur.name]) = 1
  /\ headers = {1} /\ mode = "ab" /\ initial_pos = 1

\* ---------------------------------------------------------------------- C17
\* C17: outside a call of download_file no step changes a file; a step of
\* the call for an entry leaves every file but the one named by the entry as
\* it is; and it deletes the entry's file or removes bytes of it only on the
\* oversize path (the file exists and is larger than the known expected
\* size) or when it opens the file after a 200 answered a request that
\* carried a Range header.
C17_SideEffectFrame ==
  [][ /\ pc \notin DfPcs => fsys' = fsys
      /\ pc \in DfPcs =>
           /\ \A n \in FileNames \ {cur.name} :
                fdata'[n] = fdata[n] /\ (n \in fexists') = (n \in fexists)
           /\ (\/ ~IsPrefix(fdata[cur.name], fdata'[cur.name])
               \/ cur.name \in fexists /\ cur.name \notin fexists')
                => \/ /\ pc = "df_check" /\ cur.size # NoSize
                      /\ cur.name \in fexists
                      /\ Len(fdata[cur.name]) > cur.size
                   \/ pc = "df_open" /\ r.status = 200 /\ headers # {}
    ]_vars

\* The entry's bytes were just discarded on the ignored-range path while the
\* file of another name is still there with its byte.
C17_Witness ==
  /\ pc = "df_write" /\ r.status = 200 /\ Offset > 0
  /\ Len(fdata[cur.name]) = 0
  /\ \E n \in FileNames \ {cur.name} : n \in fexists /\ fdata[n] = Res(1)

\* ---------------------------------------------------------------------- C18
Malformed(e) == e.name = NoName \/ ~e.uri

\* C18: the visit of a malformed entry goes on to the next position and
\* changes nothing else (no file, no count of matching files, no failure, no
\* request); no call of download_file is ever for a malformed entry and none
\* is recorded as failed; and a run over a manifest of malformed entries only
\* ends in the first pass with "No matching files found." and no request.
C18_MalformedSkipped ==
  [][ /\ (pc = "visit" /\ idx <= Len(files) /\ Malformed(cur))
          => /\ pc' = "visit" /\ idx' = idx + 1
             /\ UNCHANGED <<fsys, files_to_download_count, all_downloaded,
                            failed, requested, global_pass, result>>
      /\ pc' \in DfPcs => ~Malformed(files[idx'])
      /\ \A i \in failed' : ~Malformed(files[i])
      /\ (pc' = "done" /\ \A i \in 1..Len(files) : Malformed(files[i]))
          => result' = "no_matching" /\ global_pass' = 1 /\ ~requested'
    ]_vars

\* The run over an entry without name and one without uri has ended.
C18_Witness ==
  /\ pc = "done" /\ result = "no_matching"
  /\ files[1].name = NoName
  /\ files[2].name # NoName /\ ~files[2].uri

\* ---------------------------------------------------------------------- C19
\* No other entry of the manifest has the name of entry i.
DistinctName(i) ==
  \A j \in 1..Len(files) : j # i => files[j].name # files[i].name

\* Entry i has a known non-zero expected size and its local file has exactly
\* that size, and no call of download_file for it is in the middle of its
\* attempts: the file was found complete, or the call has just verified it.
Settled(i) ==
  /\ files[i].name # NoName /\ files[i].size \in 1..MaxSize
  /\ files[i].name \in fexists /\ Len(fdata[files[i].name]) = files[i].size
  /\ ~(idx = i /\ pc \in {"df_loop", "df_wait", "df_open", "df_write"})

\* C19: from a state where entry i, of a name no other entry has, is settled,
\* no step changes or removes its local file and no step starts or continues
\* an attempt for it; so it is settled in the next state too, and for the
\* rest of the run.
C19_CompleteStaysUntouched ==
  [][ \A i \in 1..Len(files) :
        (Settled(i) /\ DistinctName(i))
          => /\ fdata'[files[i].name] = fdata[files[i].name]
             /\ files[i].name \in fexists'
             /\ ~(idx' = i /\ pc' \in {"df_loop", "df_wait", "df_open", "df_write"})
    ]_vars

\* In a later pass a request is in flight for the second entry while the
\* first one, of another name, has its 2 bytes.
C19_Witness ==
  /\ global_pass > 1 /\ pc = "df_wait" /\ idx = 2
  /\ Settled(1) /\ DistinctName(1) /\ files[1].uri
  /\ files[1].size = 2

\* ---------------------------------------------------------------------- C20
\* C20: an entry of expected size 0 goes the way of an entry without size:
\* main never skips it as complete but calls download_file; the local check
\* of download_file neither returns at once nor removes the file; the first
\* request is sent; and a completed stream ends in success without a failed
\* size check, whatever the size of the file.
C20_ZeroSizeLikeUnknown ==
  [][ /\ (pc = "visit" /\ idx \in Filtered /\ cur.size \in {0, NoSize})
          => pc' = "df_check" /\ idx' = idx
      /\ (pc = "df_check" /\ cur.size \in {0, NoSize})
          => pc' = "df_loop" /\ fsys' = fsys
      /\ (pc = "df_loop" /\ retry_count = 0 /\ cur.size \in {0, NoSize})
          => pc' = "df_wait"
      /\ (pc = "df_verify" /\ cur.size \in {0, NoSize})
          => pc' = "visit" /\ failed' = failed /\ fsys' = fsys
    ]_vars

\* The first request of a call is in flight for an entry of size 0 whose
\* local file exists and is empty.
C20_Witness ==
  /\ pc = "df_wait" /\ retry_count = 0 /\ headers = {}
  /\ cur.size = 0
  /\ cur.name \in fexists /\ Len(fdata[cur.name]) = 0

====
